---- MODULE Spec2Model ----
(***************************************************************************)
(* Model of the two index computations of src/utils.py:                    *)
(*   get_ND_bounding_box(volume, margin)   -- bounding box of the non-zero *)
(*                                            voxels, widened and clamped  *)
(*   crop_with_box(volume, min_idx, max_idx, MinBox) -- fixed-size crop    *)
(* Indices are 0-based as in the source; TLA+ sequences are 1-based, so    *)
(* axis i of the source is position i+1 of a shape or index vector.        *)
(* The division operator of the source is applied to integers and is       *)
(* modelled as floor division (\div).                                      *)
(***************************************************************************)
EXTENDS Integers, Sequences, FiniteSets, TLC

VARIABLES volume, margin, bbox, min_idx, max_idx, MinBox, output,
          in_min, in_max, calls

vars == <<volume, margin, bbox, min_idx, max_idx, MinBox, output,
          in_min, in_max, calls>>

\* ------------------------------------------------------------------ bounds
MaxDim == 3        \* volumes of the bounding-box runs are 2 x (MaxDim-1) x MaxDim
MaxNonzero == 2    \* at most this many non-zero voxels in a volume
MaxMargin == 2     \* scalar margins range over -1 .. MaxMargin
CropDim == 6       \* volumes of the crop runs are (CropDim-2) x (CropDim-1) x CropDim
MaxBox == 5        \* MinBox entries range over 1 .. MaxBox
MaxCalls == 3      \* number of successive crop_with_box calls on the same lists

\* ------------------------------------------------------- program constants
NAxes == 3         \* "for i in range(3)"; volumes are 3D
Slack == 2         \* the "+ 2" of both shift steps

\* ----------------------------------------------------------------- helpers
Max(a, b) == IF a >= b THEN a ELSE b

Min(a, b) == IF a <= b THEN a ELSE b

Coords(shape) ==
  {<<a, b, c>> : a \in 0..(shape[1] - 1), b \in 0..(shape[2] - 1), c \in 0..(shape[3] - 1)}

\* row-major (C) order of coordinates, the order np.nonzero reports them in
RowMajorLess(c, d) ==
  \E i \in 1..NAxes : c[i] < d[i] /\ \A j \in 1..(i - 1) : c[j] = d[j]

RECURSIVE RowMajor(_)
RowMajor(S) ==
  IF S = {} THEN <<>>
  ELSE LET first == CHOOSE c \in S : \A d \in S \ {c} : RowMajorLess(c, d)
       IN <<first>> \o RowMajor(S \ {first})

\* np.nonzero(volume): one coordinate array per axis, entry k of every array
\* belonging to the k-th non-zero voxel
nonzero(vol) ==
  LET hits == RowMajor({c \in DOMAIN vol.data : vol.data[c] # 0})
  IN [i \in 1..Len(vol.shape) |-> [k \in 1..Len(hits) |-> hits[k][i]]]

\* ndarray.min() / ndarray.max() of a non-empty coordinate array
RECURSIVE ArrayMin(_)
ArrayMin(a) ==
  IF Len(a) = 1 THEN a[1] ELSE Min(a[1], ArrayMin(Tail(a)))

RECURSIVE ArrayMax(_)
ArrayMax(a) ==
  IF Len(a) = 1 THEN a[1] ELSE Max(a[1], ArrayMax(Tail(a)))

\* ------------------------------------------------- get_ND_bounding_box
\* "if (type(margin) is int): margin = [margin] * len(input_shape)"
\* rebinds the local name only; the caller's margin is not touched
BroadcastMargin(m, n) ==
  IF m.isInt THEN [i \in 1..n |-> m.n] ELSE m.list

\* variant: the lower bound is clamped but the margin is not subtracted
WidenMin_NoMargin(lo, m) == Max(lo, 0)

\* idx_min[i] = max(idx_min[i] - margin[i], 0)
WidenMin(lo, m) == Max(lo - m, 0)

\* variant: the upper bound is clamped to the axis length, not to the last index
WidenMax_ToLength(hi, m, size) == Min(hi + m, size)

\* idx_max[i] = min(idx_max[i] + margin[i], input_shape[i] - 1)
WidenMax(hi, m, size) == Min(hi + m, size - 1)

\* an exception leaves the function without a return value
NoRange(err) == [status |-> err, idx_min |-> <<>>, idx_max |-> <<>>]

\* variant: an all-zero volume yields the full extent of the volume
get_ND_bounding_box_FullExtent(vol, m) ==
  LET input_shape == vol.shape
      n == Len(input_shape)
      mg == BroadcastMargin(m, n)
      indxes == nonzero(vol)
  IN IF Len(indxes[1]) = 0
       THEN [status |-> "returned",
             idx_min |-> [i \in 1..n |-> 0],
             idx_max |-> [i \in 1..n |-> input_shape[i] - 1]]
     ELSE IF Len(mg) < n
       THEN NoRange("IndexError")
     ELSE [status |-> "returned",
           idx_min |-> [i \in 1..n |-> WidenMin(ArrayMin(indxes[i]), mg[i])],
           idx_max |-> [i \in 1..n |-> WidenMax(ArrayMax(indxes[i]), mg[i], input_shape[i])]]

get_ND_bounding_box(vol, m) ==
  LET input_shape == vol.shape
      n == Len(input_shape)
      mg == BroadcastMargin(m, n)
      indxes == nonzero(vol)
  IN IF Len(indxes[1]) = 0
       THEN NoRange("ValueError")      \* min() of an empty array
     ELSE IF Len(mg) < n
       THEN NoRange("IndexError")      \* margin[i] past the end of the list
     ELSE [status |-> "returned",
           idx_min |-> [i \in 1..n |-> WidenMin(ArrayMin(indxes[i]), mg[i])],
           idx_max |-> [i \in 1..n |-> WidenMax(ArrayMax(indxes[i]), mg[i], input_shape[i])]]

\* ------------------------------------------------------- crop_with_box
\* mid = (max + min) / 2 ; min = mid - MinBox/2 ; max = mid + MinBox/2
Centre(lo, hi, box) ==
  LET mid == (hi + lo) \div 2
  IN [min |-> mid - (box \div 2), max |-> mid + (box \div 2)]

\* variant: the shift also fires when the crop ends exactly at the upper edge
ShiftUpper_Inclusive(b, size) ==
  LET margin_max == b.max - size
  IN IF margin_max >= 0
       THEN [min |-> b.min - (margin_max + Slack), max |-> b.max - (margin_max + Slack)]
     ELSE b

\* margin_max = max - input_shape ; if margin_max > 0: shift both down
ShiftUpper(b, size) ==
  LET margin_max == b.max - size
  IN IF margin_max > 0
       THEN [min |-> b.min - (margin_max + Slack), max |-> b.max - (margin_max + Slack)]
     ELSE b

\* margin_min = min - 0 ; if margin_min < 0: shift both up
ShiftLower(b) ==
  LET margin_min == b.min - 0
  IN IF margin_min < 0
       THEN [min |-> b.min - margin_min + Slack, max |-> b.max - margin_min + Slack]
     ELSE b

\* variant: the extent is left as the shifts produced it
FixExtent_Skip(b, box) == b

\* variant: the extent is corrected by moving the lower bound
FixExtent_MoveMin(b, box) ==
  IF b.max - b.min # box THEN [min |-> b.max - box, max |-> b.max] ELSE b

\* if max - min != MinBox: max = min + MinBox
FixExtent(b, box) ==
  IF b.max - b.min # box THEN [min |-> b.min, max |-> b.min + box] ELSE b

\* one iteration of the loop body for one axis
CropAxis(lo, hi, box, size) ==
  FixExtent(ShiftLower(ShiftUpper(Centre(lo, hi, box), size)), box)

\* range(a, b) as the sequence a, a+1, ..., b-1
range(a, b) == [k \in 1..Max(b - a, 0) |-> a + k - 1]

\* an integer index array entry k is accepted on an axis of length size
\* iff -size <= k < size
ValidIndex(k, size) == (0 - size) <= k /\ k < size

\* the whole call: the three list slots are overwritten in place, then the
\* sub-volume at the open mesh of the three ranges is extracted
crop_with_box(vol, mn, mx, box) ==
  LET input_shape == vol.shape
      b == [i \in 1..NAxes |-> CropAxis(mn[i], mx[i], box[i], input_shape[i])]
      new_min == [i \in 1..Len(mn) |-> IF i <= NAxes THEN b[i].min ELSE mn[i]]
      new_max == [i \in 1..Len(mx) |-> IF i <= NAxes THEN b[i].max ELSE mx[i]]
      ix == [i \in 1..NAxes |-> range(new_min[i], new_max[i])]
      ok == \A i \in 1..NAxes : \A k \in 1..Len(ix[i]) : ValidIndex(ix[i][k], input_shape[i])
  IN [min_idx |-> new_min,
      max_idx |-> new_max,
      out |-> IF ok
                THEN [status |-> "returned", ix |-> ix,
                      shape |-> [i \in 1..NAxes |-> Len(ix[i])]]
              ELSE [status |-> "IndexError", ix |-> <<>>, shape |-> <<>>]]

\* ------------------------------------------------------------- inputs
RECURSIVE SubsetsUpTo(_, _)
SubsetsUpTo(S, n) ==
  IF n = 0 THEN {{}}
  ELSE LET P == SubsetsUpTo(S, n - 1) IN P \cup {s \cup {c} : s \in P, c \in S}

VolumeOf(shape, nz) ==
  [shape |-> shape, data |-> [c \in Coords(shape) |-> IF c \in nz THEN 1 ELSE 0]]

BoxShape == <<2, MaxDim - 1, MaxDim>>

CropShape == <<CropDim - 2, CropDim - 1, CropDim>>

IntMargin(k) == [isInt |-> TRUE, n |-> k, list |-> <<>>]

ListMargin(l) == [isInt |-> FALSE, n |-> 0, list |-> l]

Margins ==
  {IntMargin(k) : k \in (0 - 1)..MaxMargin}
    \cup {ListMargin(l) : l \in UNION {[1..len -> (0 - 1)..1] : len \in (NAxes - 1)..(NAxes + 1)}}

NoCall == [status |-> "none", idx_min |-> <<>>, idx_max |-> <<>>]

NoOutput == [status |-> "none", ix |-> <<>>, shape |-> <<>>]

\* ---------------------------------------------- bounding-box specification
InitBox ==
  /\ \E nz \in SubsetsUpTo(Coords(BoxShape), MaxNonzero) : volume = VolumeOf(BoxShape, nz)
  /\ margin \in Margins
  /\ bbox = NoCall
  /\ min_idx = <<>> /\ max_idx = <<>> /\ MinBox = <<>>
  /\ output = NoOutput
  /\ in_min = <<>> /\ in_max = <<>>
  /\ calls = 0

GetNDBoundingBox ==
  /\ bbox.status = "none"
  /\ bbox' = get_ND_bounding_box(volume, margin)
  /\ UNCHANGED <<volume, margin, min_idx, max_idx, MinBox, output, in_min, in_max, calls>>

NextBox == GetNDBoundingBox

SpecBox == InitBox /\ [][NextBox]_vars

\* ------------------------------------------------------ crop specification
\* the caller's lists hold an index range 0 <= min <= max <= shape - 1;
\* MinBox is d x h x h as in the source's 144 x 192 x 192
InitCrop ==
  /\ volume = VolumeOf(CropShape, {})
  /\ margin = IntMargin(0)
  /\ bbox = NoCall
  /\ min_idx \in [1..NAxes -> 0..(CropDim - 1)]
  /\ max_idx \in [1..NAxes -> 0..(CropDim - 1)]
  /\ \A i \in 1..NAxes : min_idx[i] <= max_idx[i] /\ max_idx[i] <= CropShape[i] - 1
  /\ \E d \in 1..MaxBox, h \in 1..MaxBox : MinBox = <<d, h, h>>
  /\ output = NoOutput
  /\ in_min = min_idx /\ in_max = max_idx
  /\ calls = 0

\* in_min / in_max record what the two lists held when the call was made
CropWithBox ==
  /\ calls < MaxCalls
  /\ LET r == crop_with_box(volume, min_idx, max_idx, MinBox)
     IN /\ min_idx' = r.min_idx
        /\ max_idx' = r.max_idx
        /\ output' = r.out
  /\ in_min' = min_idx
  /\ in_max' = max_idx
  /\ calls' = calls + 1
  /\ UNCHANGED <<volume, margin, bbox, MinBox>>

NextCrop == CropWithBox

SpecCrop == InitCrop /\ [][NextCrop]_vars

\* ================================================================ claims

\* ---- vocabulary of the claims, stated without the operators of the model
Called == bbox.status # "none"

NonZeroVoxels == {c \in DOMAIN volume.data : volume.data[c] # 0}

\* smallest / largest coordinate on axis i of any non-zero voxel
Lo(i) == CHOOSE c \in 0..(volume.shape[i] - 1) :
           /\ \E x \in NonZeroVoxels : x[i] = c
           /\ \A x \in NonZeroVoxels : x[i] >= c

Hi(i) == CHOOSE c \in 0..(volume.shape[i] - 1) :
           /\ \E x \in NonZeroVoxels : x[i] = c
           /\ \A x \in NonZeroVoxels : x[i] <= c

\* the margin applied to axis i
MarginAt(i) == IF margin.isInt THEN margin.n ELSE margin.list[i]

\* a scalar >= 0, or one entry >= 0 per axis
ValidMargin ==
  IF margin.isInt THEN margin.n >= 0
  ELSE Len(margin.list) = NAxes /\ \A i \in 1..NAxes : margin.list[i] >= 0

\* a negative entry, or a vector of the wrong length
InvalidMargin ==
  IF margin.isInt THEN margin.n < 0
  ELSE Len(margin.list) # NAxes \/ \E i \in 1..Len(margin.list) : margin.list[i] < 0

Cropped == calls >= 1

\* the lists passed to the last call held 0 <= min <= max <= shape - 1
RangeInVolume ==
  \A i \in 1..NAxes :
    0 <= in_min[i] /\ in_min[i] <= in_max[i] /\ in_max[i] <= volume.shape[i] - 1

FitsVolume == \A i \in 1..NAxes : MinBox[i] <= volume.shape[i]

\* bounds of the crop centred on the range passed to the last call
CentredMin(i) == ((in_max[i] + in_min[i]) \div 2) - (MinBox[i] \div 2)

CentredMax(i) == ((in_max[i] + in_min[i]) \div 2) + (MinBox[i] \div 2)

PastUpperEdge(i) == CentredMax(i) > volume.shape[i]

NoShift(i) == CentredMin(i) >= 0 /\ CentredMax(i) <= volume.shape[i]

\* C1: for every range inside the volume and every target size <= shape on
\* every axis, crop_with_box returns a sub-volume of shape exactly MinBox.
CexC1 ==
  (Cropped /\ RangeInVolume /\ FitsVolume)
    => (output.status = "returned" /\ output.shape = MinBox)

\* C2: on every axis with MinBox[i] <= shape[i] whose centred crop extends
\* past the upper edge, the bounds left in min_idx[i], max_idx[i] after all
\* steps satisfy min_idx[i] >= 0 and max_idx[i] <= shape[i].
CexC2 ==
  (Cropped /\ RangeInVolume)
    => \A i \in 1..NAxes :
         (MinBox[i] <= volume.shape[i] /\ PastUpperEdge(i))
           => (min_idx[i] >= 0 /\ max_idx[i] <= volume.shape[i])

\* C3: for a volume with a non-zero voxel and a non-negative margin the call
\* returns a range with 0 <= min[i] <= max[i] <= shape[i] - 1 on every axis.
ThmC3 ==
  (Called /\ NonZeroVoxels # {} /\ ValidMargin)
    => /\ bbox.status = "returned"
       /\ \A i \in 1..NAxes :
            /\ 0 <= bbox.idx_min[i]
            /\ bbox.idx_min[i] <= bbox.idx_max[i]
            /\ bbox.idx_max[i] <= volume.shape[i] - 1

\* a margin that would push the upper bound of some axis out of the volume
WitC3 ==
  /\ Called /\ NonZeroVoxels # {} /\ ValidMargin
  /\ bbox.status = "returned"
  /\ \E i \in 1..NAxes : Hi(i) + MarginAt(i) > volume.shape[i] - 1
  /\ \E i \in 1..NAxes : bbox.idx_min[i] < bbox.idx_max[i]

\* C4: for a volume with a non-zero voxel and margin m >= 0 the returned range
\* is min[i] = lo[i] - m[i] clamped to >= 0 and max[i] = hi[i] + m[i] clamped
\* to <= shape[i] - 1; margin 0 gives the tight box, and every margin gives a
\* range containing the tight box.
ThmC4 ==
  (Called /\ NonZeroVoxels # {} /\ ValidMargin)
    => \A i \in 1..NAxes :
         /\ Lo(i) - MarginAt(i) >= 0 => bbox.idx_min[i] = Lo(i) - MarginAt(i)
         /\ Lo(i) - MarginAt(i) < 0 => bbox.idx_min[i] = 0
         /\ Hi(i) + MarginAt(i) <= volume.shape[i] - 1 => bbox.idx_max[i] = Hi(i) + MarginAt(i)
         /\ Hi(i) + MarginAt(i) > volume.shape[i] - 1 => bbox.idx_max[i] = volume.shape[i] - 1
         /\ MarginAt(i) = 0 => (bbox.idx_min[i] = Lo(i) /\ bbox.idx_max[i] = Hi(i))
         /\ bbox.idx_min[i] <= Lo(i) /\ Hi(i) <= bbox.idx_max[i]

\* two non-zero voxels apart on some axis, widened on one axis without
\* clamping and clamped on another
WitC4 ==
  /\ Called /\ ValidMargin /\ bbox.status = "returned"
  /\ Cardinality(NonZeroVoxels) >= 2
  /\ \E i \in 1..NAxes : Lo(i) < Hi(i)
  /\ \E i \in 1..NAxes : MarginAt(i) > 0 /\ bbox.idx_min[i] = Lo(i) - MarginAt(i)
  /\ \E i \in 1..NAxes : MarginAt(i) > 0 /\ bbox.idx_min[i] > Lo(i) - MarginAt(i)

\* C5 as stated: a target size above the shape on some axis makes
\* crop_with_box fail with SizeExceedsVolumeError.
CexC5 ==
  (Cropped /\ ~FitsVolume) => output.status = "SizeExceedsVolumeError"

\* C5 as amended: a target size above the shape on some axis makes
\* crop_with_box fail with the IndexError of the sub-volume extraction; no
\* sub-volume of any shape is returned.
ThmC5 ==
  (Cropped /\ ~FitsVolume)
    => (output.status = "IndexError" /\ output.ix = <<>> /\ output.shape = <<>>)

\* only one axis is too small for the target size
WitC5 ==
  /\ Cropped /\ output.status = "IndexError"
  /\ \E i \in 1..NAxes : MinBox[i] > volume.shape[i]
  /\ \E i \in 1..NAxes : MinBox[i] < volume.shape[i]

\* C6 as stated: an all-zero volume makes get_ND_bounding_box fail with
\* EmptyVolumeError.
CexC6 ==
  (Called /\ NonZeroVoxels = {}) => bbox.status = "EmptyVolumeError"

\* C6 as amended: an all-zero volume makes get_ND_bounding_box fail with the
\* ValueError of the minimum of an empty coordinate array; no range, and in
\* particular not the full extent of the volume, is returned.
ThmC6 ==
  (Called /\ NonZeroVoxels = {})
    => (bbox.status = "ValueError" /\ bbox.idx_min = <<>> /\ bbox.idx_max = <<>>)

WitC6 == Called /\ NonZeroVoxels = {} /\ bbox.status = "ValueError"

\* C7: with a negative margin entry or a margin vector of the wrong length
\* get_ND_bounding_box fails (InvalidMarginError) and returns no range.
CexC7 ==
  (Called /\ InvalidMargin) => bbox.status # "returned"

\* C8: a call changes neither the volume nor the margin, and a crop_with_box
\* call that returns leaves the values of min_idx and max_idx as they were.
CexC8 ==
  [][/\ volume' = volume
     /\ margin' = margin
     /\ (calls' = calls + 1 /\ output'.status = "returned")
          => (min_idx' = min_idx /\ max_idx' = max_idx)]_vars

\* C9: on every axis where neither shift fires, the midpoint of the final
\* bounds differs from the midpoint of the input range by less than 1
\* (twice the midpoints differ by less than 2); and for shape 10, range 1..5,
\* target size 6 the bounds are [0, 6).
ThmC9 ==
  /\ Cropped
       => \A i \in 1..NAxes :
            NoShift(i)
              => /\ (min_idx[i] + max_idx[i]) - (in_min[i] + in_max[i]) < 2
                 /\ (in_min[i] + in_max[i]) - (min_idx[i] + max_idx[i]) < 2
  /\ CropAxis(1, 5, 6, 10) = [min |-> 0, max |-> 6]

\* a first call on a range inside the volume, no shift on any axis, with an
\* odd target size and an odd min + max on one axis and an even target size
\* on another
WitC9 ==
  /\ calls = 1 /\ RangeInVolume /\ output.status = "returned"
  /\ \A i \in 1..NAxes : NoShift(i)
  /\ \E i \in 1..NAxes : MinBox[i] % 2 = 1 /\ (in_min[i] + in_max[i]) % 2 = 1
  /\ \E i \in 1..NAxes : MinBox[i] % 2 = 0

\* C10: once a call has returned, a further call on the same lists, MinBox
\* and volume extracts the same index interval on every axis and returns.
ThmC10 ==
  [][(output.status = "returned" /\ calls' = calls + 1)
       => (min_idx' = min_idx /\ max_idx' = max_idx /\ output' = output)]_vars

\* the last of MaxCalls calls that all returned, the later ones on the lists
\* as the call before left them, with an odd target size on one axis and a
\* crop ending at the upper edge on one axis
WitC10 ==
  /\ calls = MaxCalls /\ output.status = "returned"
  /\ in_min = min_idx /\ in_max = max_idx
  /\ \E i \in 1..NAxes : MinBox[i] % 2 = 1
  /\ \E i \in 1..NAxes : max_idx[i] = volume.shape[i]

====
